---- MODULE Spec2Model ----
(***************************************************************************)
(* Model of pyocle's structured API response pipeline: the naming          *)
(* transformer (serialization.py), the response envelope builders and the  *)
(* error-handling wrappers (response.py, error.py) and the taxonomy errors *)
(* (service/core.py, form.py, error.py).                                   *)
(***************************************************************************)
EXTENDS Integers, Sequences, FiniteSets, TLC

VARIABLES pc, wrapper, handler, calls, outcome, resp, built, log, call

vars == <<pc, wrapper, handler, calls, outcome, resp, built, log, call>>

(***************************************************************************)
(* Python values.  Every value is a record [t, v]: t is the Python type    *)
(* and v the payload, so that values of different types compare unequal.   *)
(* A str used as a field name or dict key is a sequence of one-character   *)
(* strings, which is what the naming transformer works on; message texts   *)
(* are strings.  A dict is the sequence of its <<key, value>> items in     *)
(* insertion order.                                                        *)
(***************************************************************************)
PyNone == [t |-> "none", v |-> 0]

PyStr(s) == [t |-> "str", v |-> s]

PyInt(i) == [t |-> "int", v |-> i]

PyBool(b) == [t |-> "bool", v |-> b]

PyList(items) == [t |-> "list", v |-> items]

PyDict(items) == [t |-> "dict", v |-> items]

PyObj(cls, attrs) == [t |-> "object", v |-> [cls |-> cls, attrs |-> attrs]]

\* An exception in flight: the result of a call that raised.
Raise(cls, fields) == [t |-> "raise", v |-> [cls |-> cls, fields |-> fields]]

IsRaise(x) == x.t = "raise"

\* Python truthiness, as used by `x or default`.
Truthy(x) ==
    CASE x.t = "none" -> FALSE
      [] x.t = "bool" -> x.v
      [] x.t = "int" -> x.v # 0
      [] x.t = "str" -> x.v # ""
      [] x.t = "list" -> Len(x.v) > 0
      [] x.t = "dict" -> Len(x.v) > 0
      [] OTHER -> TRUE

\* `x or default`
Or(x, default) == IF Truthy(x) THEN x ELSE default

\* str(x) inside an f-string.
Str(x) ==
    CASE x.t = "str" -> x.v
      [] x.t = "int" -> ToString(x.v)
      [] x.t = "none" -> "None"
      [] x.t = "bool" -> IF x.v THEN "True" ELSE "False"

Keys(d) == [i \in 1..Len(d.v) |-> d.v[i][1]]

KeySet(d) == {d.v[i][1] : i \in 1..Len(d.v)}

HasKey(d, k) == \E i \in 1..Len(d.v) : d.v[i][1] = k

\* d[k]
Get(d, k) == d.v[CHOOSE i \in 1..Len(d.v) : d.v[i][1] = k][2]

\* d[k] = x: a new key goes to the end, an existing key keeps its place.
Put(d, k, x) ==
    IF HasKey(d, k)
    THEN PyDict([i \in 1..Len(d.v) |-> IF d.v[i][1] = k THEN <<k, x>> ELSE d.v[i]])
    ELSE PyDict(Append(d.v, <<k, x>>))

\* obj.name
Attr(o, name) == Get(PyDict(o.v.attrs), name)

(***************************************************************************)
(* Names of the fields and keys of the source.                             *)
(***************************************************************************)
n_description == <<"d", "e", "s", "c", "r", "i", "p", "t", "i", "o", "n">>

n_location == <<"l", "o", "c", "a", "t", "i", "o", "n">>

n_message == <<"m", "e", "s", "s", "a", "g", "e">>

n_error_details == <<"e", "r", "r", "o", "r", "_", "d", "e", "t", "a", "i", "l", "s">>

n_pagination_details ==
    <<"p", "a", "g", "i", "n", "a", "t", "i", "o", "n", "_", "d", "e", "t", "a", "i", "l", "s">>

n_schemas == <<"s", "c", "h", "e", "m", "a", "s">>

n_success == <<"s", "u", "c", "c", "e", "s", "s">>

n_meta == <<"m", "e", "t", "a">>

n_data == <<"d", "a", "t", "a">>

n_page == <<"p", "a", "g", "e">>

n_limit == <<"l", "i", "m", "i", "t">>

n_status_code == <<"s", "t", "a", "t", "u", "s", "_", "c", "o", "d", "e">>

n_body == <<"b", "o", "d", "y">>

n_headers == <<"h", "e", "a", "d", "e", "r", "s">>

\* The keys of the wire body.
n_errorDetails == <<"e", "r", "r", "o", "r", "D", "e", "t", "a", "i", "l", "s">>

n_paginationDetails ==
    <<"p", "a", "g", "i", "n", "a", "t", "i", "o", "n", "D", "e", "t", "a", "i", "l", "s">>

(***************************************************************************)
(* serialization.py                                                        *)
(***************************************************************************)
LowerCase ==
    <<"a", "b", "c", "d", "e", "f", "g", "h", "i", "j", "k", "l", "m",
      "n", "o", "p", "q", "r", "s", "t", "u", "v", "w", "x", "y", "z">>

UpperCase ==
    <<"A", "B", "C", "D", "E", "F", "G", "H", "I", "J", "K", "L", "M",
      "N", "O", "P", "Q", "R", "S", "T", "U", "V", "W", "X", "Y", "Z">>

\* [a-zA-Z]
IsLetter(c) == \E i \in 1..26 : c = LowerCase[i] \/ c = UpperCase[i]

\* str.upper() of one character
upper(c) ==
    IF \E i \in 1..26 : c = LowerCase[i]
    THEN UpperCase[CHOOSE i \in 1..26 : c = LowerCase[i]]
    ELSE c

\* re.sub(r'(.*?)_([a-zA-Z])', convert, value, 0) from position i on: the
\* lazy group takes the text up to the next '_' that a letter follows, the
\* match is replaced by that text and the upper-cased letter, and the scan
\* goes on after the letter; what no match covers is copied.
RECURSIVE sub_from(_, _)
sub_from(value, i) ==
    IF i > Len(value) THEN <<>>
    ELSE IF value[i] = "_" /\ i + 1 <= Len(value) /\ IsLetter(value[i + 1])
         THEN <<upper(value[i + 1])>> \o sub_from(value, i + 2)
         ELSE <<value[i]>> \o sub_from(value, i + 1)

snake_case_to_camel_case(value) == sub_from(value, 1)

is_snake_case(value) == \E i \in 1..Len(value) : value[i] = "_"

to_camel_case(value) ==
    IF is_snake_case(value) THEN snake_case_to_camel_case(value) ELSE value

\* The keys of a mapping rewritten, and those of the mappings in it.
RECURSIVE camel_case_deep(_)
camel_case_deep(x) ==
    IF x.t = "dict"
    THEN PyDict([i \in 1..Len(x.v) |-> <<to_camel_case(x.v[i][1]), camel_case_deep(x.v[i][2])>>])
    ELSE x

\* __getstate__ rewriting the keys of nested mappings too.
RECURSIVE getstate_items_deep(_, _)
getstate_items_deep(items, acc) ==
    IF items = <<>> THEN acc
    ELSE getstate_items_deep(Tail(items),
                             Put(acc, to_camel_case(items[1][1]), camel_case_deep(items[1][2])))

\* {to_camel_case(key): value for key, value in self.__dict__.items()}
RECURSIVE getstate_items(_, _)
getstate_items(items, acc) ==
    IF items = <<>> THEN acc
    ELSE getstate_items(Tail(items), Put(acc, to_camel_case(items[1][1]), items[1][2]))

getstate(o) == getstate_items(o.v.attrs, PyDict(<<>>))

\* The classes that use CamelCaseAttributesMixin.
CamelCaseClasses == {"ErrorDetail", "MetaData"}

\* jsonpickle.dumps(value, unpicklable=False), as the JSON value it writes: an
\* object becomes the JSON object of its __getstate__() (or of its __dict__
\* when the class has none), and its values are encoded in turn.
RECURSIVE to_json(_)
to_json(x) ==
    CASE x.t = "list" -> PyList([i \in 1..Len(x.v) |-> to_json(x.v[i])])
      [] x.t = "dict" ->
            PyDict([i \in 1..Len(x.v) |-> <<x.v[i][1], to_json(x.v[i][2])>>])
      [] x.t = "object" ->
            to_json(IF x.v.cls \in CamelCaseClasses THEN getstate(x) ELSE PyDict(x.v.attrs))
      [] OTHER -> x

(***************************************************************************)
(* response.py: the envelope classes and builders.  A call that raises     *)
(* returns the Raise value, and a caller hands it on.                      *)
(***************************************************************************)
\* ErrorDetail(description, location)
ErrorDetail(description, location) ==
    PyObj("ErrorDetail", <<<<n_description, description>>, <<n_location, location>>>>)

\* PaginationDetails taking page for limit and limit for page.
PaginationDetails_swapped(kwargs) ==
    IF HasKey(kwargs, n_page) /\ HasKey(kwargs, n_limit)
    THEN PyObj("PaginationDetails",
               <<<<n_page, Get(kwargs, n_limit)>>, <<n_limit, Get(kwargs, n_page)>>>>)
    ELSE Raise("TypeError", <<>>)

\* PaginationDetails(**kwargs): page and limit are required, other keywords
\* are swallowed by **kwargs.
PaginationDetails(kwargs) ==
    IF HasKey(kwargs, n_page) /\ HasKey(kwargs, n_limit)
    THEN PyObj("PaginationDetails",
               <<<<n_page, Get(kwargs, n_page)>>, <<n_limit, Get(kwargs, n_limit)>>>>)
    ELSE Raise("TypeError", <<>>)

\* MetaData.__init__ storing its arguments as given.
MetaData_unnormalised(message, error_details, pagination_details, schemas) ==
    PyObj("MetaData",
          <<<<n_message, message>>,
            <<n_error_details, error_details>>,
            <<n_pagination_details, pagination_details>>,
            <<n_schemas, schemas>>>>)

\* MetaData.__init__
MetaData(message, error_details, pagination_details, schemas) ==
    PyObj("MetaData",
          <<<<n_message, message>>,
            <<n_error_details, Or(error_details, PyList(<<>>))>>,
            <<n_pagination_details, Or(pagination_details, PyDict(<<>>))>>,
            <<n_schemas, Or(schemas, PyDict(<<>>))>>>>)

\* ResponseBody.__init__
ResponseBody(success, meta, data) ==
    PyObj("ResponseBody", <<<<n_success, success>>, <<n_meta, meta>>, <<n_data, data>>>>)

\* chalice.Response(status_code=, body=, headers=): headers default to {}.
Response(status_code, body, headers) ==
    [t |-> "Response",
     v |-> [status_code |-> status_code,
            body |-> body,
            headers |-> IF headers.t = "none" THEN PyDict(<<>>) ELSE headers]]

metadata(message, error_details, pagination_details, schemas) ==
    MetaData(message, error_details, pagination_details, schemas)

\* pagination.dict() of a pydantic model; any other value has no dict().
pydantic_dict(model) ==
    IF model.t = "object" THEN PyDict(model.v.attrs) ELSE Raise("AttributeError", <<>>)

ok_metadata(pagination) ==
    LET kwargs == IF pagination.t = "none" THEN PyNone ELSE pydantic_dict(pagination)
        pagination_details ==
            IF pagination.t = "none" THEN PyNone
            ELSE IF IsRaise(kwargs) THEN kwargs ELSE PaginationDetails(kwargs)
    IN  IF IsRaise(pagination_details) THEN pagination_details
        ELSE metadata(PyStr("Request completed successfully"), PyNone, pagination_details,
                      PyNone)

BadMessage == "Given inputs were incorrect. Consult the below details to address the issue."

\* bad_metadata leaving the error details out.
bad_metadata_no_details(error_details, schemas) ==
    metadata(PyStr(BadMessage), PyList(<<>>), PyNone,
             IF schemas.t # "none" THEN schemas ELSE PyDict(<<>>))

bad_metadata(error_details, schemas) ==
    metadata(PyStr(BadMessage),
             Or(error_details, PyList(<<>>)),
             PyNone,
             IF schemas.t # "none" THEN schemas ELSE PyDict(<<>>))

not_found_metadata(identifier) ==
    metadata(PyStr("Resource with id " \o Str(identifier) \o " does not exist"),
             PyNone, PyNone, PyNone)

InternalErrorMessage == "Request failed due to internal server error"

internal_error_metadata == metadata(PyStr(InternalErrorMessage), PyNone, PyNone, PyNone)

\* response() with success = status_code <= 400.
response_le(status_code, meta, data, headers) ==
    IF IsRaise(meta) THEN meta
    ELSE Response(status_code,
                  to_json(ResponseBody(PyBool(status_code <= 400), meta, data)),
                  headers)

\* response(status_code, meta, data=None, headers=None)
response(status_code, meta, data, headers) ==
    IF IsRaise(meta) THEN meta
    ELSE LET success == status_code < 400
             body == ResponseBody(PyBool(success), meta, data)
             json_body == to_json(body)
         IN  Response(status_code, json_body, headers)

ok(data, pagination) == response(200, ok_metadata(pagination), data, PyNone)

\* created() answering 200.
created_200(data) == response(200, ok_metadata(PyNone), data, PyNone)

created(data) == response(201, ok_metadata(PyNone), data, PyNone)

bad(error_details, schemas) ==
    LET response_metadata == bad_metadata(error_details, schemas)
    IN  response(400, response_metadata, PyNone, PyNone)

not_found(identifier) ==
    LET response_metadata == not_found_metadata(identifier)
    IN  response(404, response_metadata, PyNone, PyNone)

internal_error == response(500, internal_error_metadata, PyNone, PyNone)

n_loc == <<"l", "o", "c">>

n_msg == <<"m", "s", "g">>

\* '.'.join(loc): a TypeError unless every item is a str.
RECURSIVE join_from(_, _)
join_from(loc, i) ==
    IF i > Len(loc) THEN ""
    ELSE IF i = 1 THEN loc[i].v \o join_from(loc, i + 1)
         ELSE "." \o loc[i].v \o join_from(loc, i + 1)

join(loc) ==
    IF \A i \in 1..Len(loc.v) : loc.v[i].t = "str"
    THEN PyStr(join_from(loc.v, 1))
    ELSE Raise("TypeError", <<>>)

\* [ErrorDetail(location='.'.join(error['loc']), description=error['msg'])
\*  for error in errors]
build_error_details(errors) ==
    LET location(i) == join(Get(errors.v[i], n_loc))
    IN  IF \E i \in 1..Len(errors.v) : IsRaise(location(i))
        THEN Raise("TypeError", <<>>)
        ELSE PyList([i \in 1..Len(errors.v) |->
                        ErrorDetail(Get(errors.v[i], n_msg), location(i))])

(***************************************************************************)
(* The taxonomy errors: service/core.py, form.py and error.py.             *)
(***************************************************************************)
n_identifier == <<"i", "d", "e", "n", "t", "i", "f", "i", "e", "r">>

n_errors == <<"e", "r", "r", "o", "r", "s">>

n_schema == <<"s", "c", "h", "e", "m", "a">>

n_args == <<"a", "r", "g", "s">>

\* ResourceNotFoundError keeping the message it is given, None included.
service_ResourceNotFoundError_no_default(cls, identifier, message) ==
    Raise(cls, <<<<n_identifier, identifier>>, <<n_message, message>>>>)

\* pyocle.service.ResourceNotFoundError(identifier, message=None)
service_ResourceNotFoundError(cls, identifier, message) ==
    Raise(cls,
          <<<<n_identifier, identifier>>,
            <<n_message,
              Or(message,
                 PyStr("Resource with id " \o Str(identifier) \o " could not be found"))>>>>)

\* pyocle.error.ResourceNotFoundError(identifier, message=None)
error_ResourceNotFoundError(identifier, message) ==
    Raise("pyocle.error.ResourceNotFoundError",
          <<<<n_identifier, identifier>>,
            <<n_message,
              Or(message,
                 PyStr("Resource with id " \o Str(identifier) \o " could not be found"))>>>>)

\* pyocle.form.FormValidationError(errors=None, message=None, schemas=None)
form_FormValidationError(errors, message, schemas) ==
    Raise("pyocle.form.FormValidationError",
          <<<<n_errors, Or(errors, PyList(<<>>))>>,
            <<n_message, Or(message, PyStr("Form was not validated successfully"))>>,
            <<n_schemas, schemas>>>>)

\* pyocle.error.FormValidationError(error_details=None, message=None, schema=None)
error_FormValidationError(error_details, message, schema) ==
    Raise("pyocle.error.FormValidationError",
          <<<<n_error_details, Or(error_details, PyList(<<>>))>>,
            <<n_message, Or(message, PyStr("Form was not validated successfully"))>>,
            <<n_schema, schema>>>>)

\* Any other exception, with its text.
OtherError(cls, text) == Raise(cls, <<<<n_args, PyStr(text)>>>>)

\* The classes an exception class is an instance of (its method resolution
\* order, without object and BaseException).
Bases(cls) ==
    CASE cls = "pyocle.service.ResourceNotFoundError" ->
            {"pyocle.service.ResourceNotFoundError", "Exception"}
      [] cls = "app.UserNotFoundError" ->
            {"app.UserNotFoundError", "pyocle.service.ResourceNotFoundError", "Exception"}
      [] cls = "pyocle.error.ResourceNotFoundError" ->
            {"pyocle.error.ResourceNotFoundError", "pyocle.error.ServiceError", "Exception"}
      [] cls = "pyocle.form.FormValidationError" ->
            {"pyocle.form.FormValidationError", "Exception"}
      [] cls = "pyocle.error.FormValidationError" ->
            {"pyocle.error.FormValidationError", "pyocle.error.FormError", "Exception"}
      [] cls = "KeyError" -> {"KeyError", "LookupError", "Exception"}
      [] OTHER -> {cls, "Exception"}

\* isinstance(ex, cls)
IsInstance(ex, cls) == cls \in Bases(ex.v.cls)

\* ex.name
ExAttr(ex, name) == Get(PyDict(ex.v.fields), name)

(***************************************************************************)
(* The two error-handling wrappers: response.py and error.py.              *)
(***************************************************************************)
Wrappers == {"pyocle.response", "pyocle.error"}

\* The ResourceNotFoundError and FormValidationError a wrapper's module
\* imports and names in its except clauses.
NotFoundClass(w) ==
    IF w = "pyocle.response" THEN "pyocle.service.ResourceNotFoundError"
    ELSE "pyocle.error.ResourceNotFoundError"

ValidationClass(w) ==
    IF w = "pyocle.response" THEN "pyocle.form.FormValidationError"
    ELSE "pyocle.error.FormValidationError"

\* The except clause of wrapped_handler that catches ex: the clauses are
\* tried in the order they are written.
except_clause(w, ex) ==
    IF IsInstance(ex, NotFoundClass(w)) THEN "ResourceNotFoundError"
    ELSE IF IsInstance(ex, ValidationClass(w)) THEN "FormValidationError"
    ELSE IF IsInstance(ex, "Exception") THEN "Exception"
    ELSE "none"

\* bad(**kwargs): only error_details and schemas are parameters of bad.
bad_call(kwargs) ==
    IF KeySet(kwargs) \subseteq {n_error_details, n_schemas}
    THEN bad(IF HasKey(kwargs, n_error_details) THEN Get(kwargs, n_error_details) ELSE PyNone,
             IF HasKey(kwargs, n_schemas) THEN Get(kwargs, n_schemas) ELSE PyNone)
    ELSE Raise("TypeError", <<>>)

\* `return decorated(*args, **kwargs)`: the handler's value is returned as is.
on_return_rebuilt(w, value) == ok(PyNone, PyNone)

on_return(w, value) == value

\* The except clause answering with the message the error carries.
on_not_found_message(w, ex) ==
    response(404, metadata(ExAttr(ex, n_message), PyNone, PyNone, PyNone), PyNone, PyNone)

\* The body of `except ResourceNotFoundError as ex`.
on_not_found(w, ex) == not_found(ExAttr(ex, n_identifier))

\* The body of `except FormValidationError as ex`.
on_validation(w, ex) ==
    IF w = "pyocle.response"
    THEN LET error_details == build_error_details(ExAttr(ex, n_errors))
         IN  IF IsRaise(error_details) THEN error_details
             ELSE bad_call(PyDict(<<<<n_error_details, error_details>>,
                                    <<n_schemas, ExAttr(ex, n_schemas)>>>>))
    ELSE bad_call(PyDict(<<<<n_error_details, ExAttr(ex, n_error_details)>>,
                           <<n_schema, ExAttr(ex, n_schema)>>>>))

\* The records `except Exception as ex` writes to the log sink.
LogRecord(thread, name, level, msg, ex) ==
    [thread |-> thread, name |-> name, levelname |-> level, msg |-> msg, exc |-> ex]

\* The catch-all logging its fixed message only, never the error.
on_other_log_message_only(w, thread, ex) ==
    <<LogRecord(thread, IF w = "pyocle.response" THEN "pyocle.response" ELSE "root", "ERROR",
                "Something crashed, view the below traceback for more information",
                PyNone)>>

on_other_log(w, thread, ex) ==
    IF w = "pyocle.response"
    THEN <<LogRecord(thread, "pyocle.response", "ERROR",
                     "Something crashed, view the below traceback for more information",
                     PyNone),
           LogRecord(thread, "pyocle.response", "ERROR", "", ex)>>
    ELSE <<LogRecord(thread, "root", "ERROR", "Caught exception for %s", ex)>>

\* The catch-all naming the error's type in the message.
on_other_leak(w, ex) ==
    response(500,
             metadata(PyStr(InternalErrorMessage \o ": " \o ex.v.cls), PyNone, PyNone, PyNone),
             PyNone, PyNone)

\* The catch-all numbering its failures in a module-level counter, kept here
\* as the number of records in the log sink.
on_other_counted(w, ex) ==
    response(500,
             metadata(PyStr(InternalErrorMessage \o " (" \o ToString(Len(log)) \o ")"),
                      PyNone, PyNone, PyNone),
             PyNone, PyNone)

\* The response `except Exception as ex` returns.
on_other(w, ex) == internal_error

(***************************************************************************)
(* Inputs: what a handler does when it is called, and the arguments the    *)
(* builders are called with.                                               *)
(***************************************************************************)
\* Longest errors list a FormValidationError carries.
MaxErrors == 2

\* Status codes within this distance of 400 are tried.
StatusRadius == 2

Requests == {1, 2}

n_k == <<"k">>

n_test_data == <<"t", "e", "s", "t", "_", "d", "a", "t", "a">>

n_requestBody == <<"r", "e", "q", "u", "e", "s", "t", "B", "o", "d", "y">>

n_title == <<"t", "i", "t", "l", "e">>

Datas ==
    {PyNone, PyDict(<<<<n_k, PyStr("v")>>>>), PyDict(<<<<n_test_data, PyInt(5)>>>>)}

Identifiers == {PyStr("123"), PyInt(7)}

Messages == {PyNone, PyStr("custom message")}

SchemaDescription == PyDict(<<<<n_title, PyStr("DummyForm")>>>>)

SchemasValues == {PyNone, PyDict(<<>>), PyDict(<<<<n_requestBody, SchemaDescription>>>>)}

\* 'loc' paths as pydantic reports them: field names, and list indexes.
LocPaths ==
    {<<PyStr("name")>>, <<PyStr("person"), PyStr("name")>>, <<PyStr("items"), PyInt(0)>>}

ErrorEntries ==
    {PyDict(<<<<n_loc, PyList(loc)>>, <<n_msg, PyStr("field required")>>>>) : loc \in LocPaths}

ErrorLists ==
    {PyNone} \cup {PyList(l) : l \in UNION {[1..n -> ErrorEntries] : n \in 0..MaxErrors}}

ErrorDetailLists ==
    {PyNone, PyList(<<ErrorDetail(PyStr("d"), PyStr("loc"))>>),
     PyList(<<ErrorDetail(PyStr("d"), PyStr("loc")), ErrorDetail(PyStr("e"), PyStr("a.b"))>>)}

PaginationQueryParameters(page, limit) ==
    PyObj("PaginationQueryParameters", <<<<n_page, PyInt(page)>>, <<n_limit, PyInt(limit)>>>>)

Paginations == {PyNone, PaginationQueryParameters(0, 100), PaginationQueryParameters(2, 10)}

\* Largest page number ok_metadata is called with.
MaxPage == 3

PaginationSamples ==
    {PyNone} \cup {PaginationQueryParameters(p, l) : p \in 0..MaxPage, l \in {1, 10, 100, 1000}}

HeadersValues == {PyNone, PyDict(<<<<n_k, PyStr("v")>>>>)}

Metas ==
    {ok_metadata(PyNone), bad_metadata(PyNone, PyNone), not_found_metadata(PyStr("123")),
     internal_error_metadata}
        \cup {metadata(PyStr("custom"), e, p, s) :
                e \in {PyNone, PyList(<<>>)},
                p \in {PyNone, PaginationDetails(pydantic_dict(PaginationQueryParameters(2, 10)))},
                s \in SchemasValues}

StatusCodes ==
    {0, 200, 201, 302, 404, 500} \cup ((400 - StatusRadius)..(400 + StatusRadius))

\* What a handler does: it returns a value, or it raises.
HandlerReturns ==
    {ok(d, PyNone) : d \in Datas}
        \cup {created(PyNone), PyNone,
              response(302, ok_metadata(PyNone), PyNone, PyDict(<<<<n_k, PyStr("v")>>>>))}

HandlerRaises ==
    {service_ResourceNotFoundError("pyocle.service.ResourceNotFoundError", i, m) :
        i \in Identifiers, m \in Messages}
        \cup {service_ResourceNotFoundError("app.UserNotFoundError", PyStr("123"), PyNone)}
        \cup {error_ResourceNotFoundError(i, PyNone) : i \in Identifiers}
        \cup {form_FormValidationError(e, PyNone, s) : e \in ErrorLists, s \in SchemasValues}
        \cup {error_FormValidationError(e, PyNone, s) :
                e \in {PyNone, PyList(<<ErrorDetail(PyStr("d"), PyStr("loc"))>>)},
                s \in {PyNone, SchemaDescription}}
        \cup {OtherError(c, text) : c \in {"Exception", "ValueError", "KeyError"},
                                    text \in {"", "secret"}}

HandlerBehaviours == HandlerReturns \cup HandlerRaises

(***************************************************************************)
(* State.  Per invocation r of a wrapped handler: pc[r] is its position,   *)
(* wrapper[r] the module whose error_handler wraps the handler, handler[r] *)
(* what the handler did (its return value or the exception it raised),     *)
(* calls[r] how often the handler was called, outcome[r] how the wrapped   *)
(* call ended, resp[r] what it gave its caller (a response, or the         *)
(* exception that left it), built[r] how many responses the wrapper built. *)
(* log is the log sink.  call is the last direct call of a builder.        *)
(***************************************************************************)
NoCall == [fn |-> "none", args |-> <<>>, result |-> PyNone]

Init ==
    /\ pc = [r \in Requests |-> "ready"]
    /\ wrapper = [r \in Requests |-> "none"]
    /\ handler = [r \in Requests |-> PyNone]
    /\ calls = [r \in Requests |-> 0]
    /\ outcome = [r \in Requests |-> "none"]
    /\ resp = [r \in Requests |-> PyNone]
    /\ built = [r \in Requests |-> 0]
    /\ log = <<>>
    /\ call = NoCall

\* wrapped_handler(*args, **kwargs): `return decorated(*args, **kwargs)`
\* runs the handler, to its return or to the exception it raises.
Invoke(r) ==
    /\ pc[r] = "ready"
    /\ \E w \in Wrappers, h \in HandlerBehaviours :
        /\ wrapper' = [wrapper EXCEPT ![r] = w]
        /\ handler' = [handler EXCEPT ![r] = h]
    /\ pc' = [pc EXCEPT ![r] = "running"]
    /\ calls' = [calls EXCEPT ![r] = @ + 1]
    /\ UNCHANGED <<outcome, resp, built, log, call>>

\* The handler returned: its value is returned.
PassThrough(r) ==
    /\ pc[r] = "running"
    /\ ~IsRaise(handler[r])
    /\ resp' = [resp EXCEPT ![r] = on_return(wrapper[r], handler[r])]
    /\ outcome' = [outcome EXCEPT ![r] = "passThrough"]
    /\ pc' = [pc EXCEPT ![r] = "terminated"]
    /\ UNCHANGED <<wrapper, handler, calls, built, log, call>>

\* How a wrapper's except clause ends: with the response it built, or with
\* the exception raised while building it, which leaves the wrapper.
Finish(r, name, result) ==
    /\ resp' = [resp EXCEPT ![r] = result]
    /\ outcome' = [outcome EXCEPT ![r] = IF IsRaise(result) THEN "raised" ELSE name]
    /\ built' = [built EXCEPT ![r] = IF IsRaise(result) THEN @ ELSE @ + 1]
    /\ pc' = [pc EXCEPT ![r] = "terminated"]

\* except ResourceNotFoundError as ex
HandleNotFound(r) ==
    /\ pc[r] = "running"
    /\ IsRaise(handler[r])
    /\ except_clause(wrapper[r], handler[r]) = "ResourceNotFoundError"
    /\ Finish(r, "notFound", on_not_found(wrapper[r], handler[r]))
    /\ UNCHANGED <<wrapper, handler, calls, log, call>>

\* except FormValidationError as ex
HandleValidation(r) ==
    /\ pc[r] = "running"
    /\ IsRaise(handler[r])
    /\ except_clause(wrapper[r], handler[r]) = "FormValidationError"
    /\ Finish(r, "bad", on_validation(wrapper[r], handler[r]))
    /\ UNCHANGED <<wrapper, handler, calls, log, call>>

\* except Exception as ex
HandleOther(r) ==
    /\ pc[r] = "running"
    /\ IsRaise(handler[r])
    /\ except_clause(wrapper[r], handler[r]) = "Exception"
    /\ log' = log \o on_other_log(wrapper[r], r, handler[r])
    /\ Finish(r, "internalError", on_other(wrapper[r], handler[r]))
    /\ UNCHANGED <<wrapper, handler, calls, call>>

Next ==
    \E r \in Requests :
        \/ Invoke(r)
        \/ PassThrough(r)
        \/ HandleNotFound(r)
        \/ HandleValidation(r)
        \/ HandleOther(r)

Spec == Init /\ [][Next]_vars

(***************************************************************************)
(* Direct calls of the builders of response.py.                            *)
(***************************************************************************)
Called(fn, args, result) ==
    /\ call' = [fn |-> fn, args |-> args, result |-> result]
    /\ UNCHANGED <<pc, wrapper, handler, calls, outcome, resp, built, log>>

CallResponse ==
    \E s \in StatusCodes, m \in Metas, d \in Datas, h \in HeadersValues :
        Called("response", <<PyInt(s), m, d, h>>, response(s, m, d, h))

CallOk == \E d \in Datas, p \in Paginations : Called("ok", <<d, p>>, ok(d, p))

CallCreated == \E d \in Datas : Called("created", <<d>>, created(d))

CallBad ==
    \E e \in ErrorDetailLists, s \in SchemasValues : Called("bad", <<e, s>>, bad(e, s))

CallNotFound == \E i \in Identifiers : Called("not_found", <<i>>, not_found(i))

CallInternalError == Called("internal_error", <<>>, internal_error)

CallOkMetadata == \E p \in PaginationSamples : Called("ok_metadata", <<p>>, ok_metadata(p))

NextBuilder ==
    \/ CallResponse
    \/ CallOk
    \/ CallCreated
    \/ CallBad
    \/ CallNotFound
    \/ CallInternalError
    \/ CallOkMetadata

SpecBuilder == Init /\ [][NextBuilder]_vars

(***************************************************************************)
(* Properties of the error-handling wrapper.                               *)
(***************************************************************************)
IsResponse(x) == x.t = "Response"

StatusOf(x) == x.v.status_code

BodyOf(x) == x.v.body

SuccessOf(x) == Get(BodyOf(x), n_success)

MetaOf(x) == Get(BodyOf(x), n_meta)

MessageOf(x) == Get(MetaOf(x), n_message)

Terminated(r) == pc[r] = "terminated"

\* The wrapped call of r has ended and its handler had raised.
EndedAfterRaise(r) == Terminated(r) /\ IsRaise(handler[r])

IsNotFound(r) == IsInstance(handler[r], NotFoundClass(wrapper[r]))

IsValidation(r) == IsInstance(handler[r], ValidationClass(wrapper[r]))

\* C1: however the handler ends, the wrapped call gives its caller a value and
\* never an exception; after a raise the value is a response with a non-empty
\* body.
C1_AlwaysAnEnvelope ==
    \A r \in Requests :
        Terminated(r) =>
            /\ ~IsRaise(resp[r])
            /\ IsRaise(handler[r]) => IsResponse(resp[r]) /\ Len(BodyOf(resp[r]).v) > 0

\* C2: a ResourceNotFoundError always ends in the 404 outcome, a
\* FormValidationError always ends in the 400 outcome, and the 500 outcome is
\* produced only for an error that is neither.
C2_StrictPriority ==
    \A r \in Requests :
        EndedAfterRaise(r) =>
            /\ IsNotFound(r) =>
                outcome[r] = "notFound" /\ IsResponse(resp[r]) /\ StatusOf(resp[r]) = 404
            /\ IsValidation(r) /\ ~IsNotFound(r) =>
                outcome[r] = "bad" /\ IsResponse(resp[r]) /\ StatusOf(resp[r]) = 400
            /\ outcome[r] = "internalError" => ~IsNotFound(r) /\ ~IsValidation(r)

\* C3: an invocation calls its handler once and ends in exactly one of the
\* outcomes pass-through, notFound, bad, internalError, having built at most
\* one response.
C3_ExactlyOneOutcome ==
    \A r \in Requests :
        /\ calls[r] <= 1
        /\ built[r] <= 1
        /\ pc[r] # "ready" => calls[r] = 1
        /\ ~Terminated(r) => outcome[r] = "none" /\ built[r] = 0
        /\ Terminated(r) =>
            /\ outcome[r] \in {"passThrough", "notFound", "bad", "internalError"}
            /\ outcome[r] = "passThrough" <=> built[r] = 0

\* C4: a raised ResourceNotFoundError(identifier) gives status 404, success
\* false and the message 'Resource with id {identifier} does not exist',
\* whatever message the error carries.
C4_NotFoundResponse ==
    \A r \in Requests :
        EndedAfterRaise(r) /\ IsNotFound(r) =>
            /\ IsResponse(resp[r])
            /\ StatusOf(resp[r]) = 404
            /\ SuccessOf(resp[r]) = PyBool(FALSE)
            /\ MessageOf(resp[r]) =
                PyStr("Resource with id " \o Str(ExAttr(handler[r], n_identifier))
                        \o " does not exist")

\* A ResourceNotFoundError with an integer identifier and a message of its
\* own was handled.
C4_Witness ==
    \E r \in Requests :
        /\ EndedAfterRaise(r) /\ IsNotFound(r)
        /\ ExAttr(handler[r], n_identifier) = PyInt(7)
        /\ ExAttr(handler[r], n_message) = PyStr("custom message")
        /\ IsResponse(resp[r]) /\ StatusOf(resp[r]) = 404

\* The location a 'loc' path stands for: its items joined by '.'.
RECURSIVE Dotted(_)
Dotted(loc) ==
    IF loc = <<>> THEN ""
    ELSE IF Len(loc) = 1 THEN Str(loc[1])
         ELSE Str(loc[1]) \o "." \o Dotted(Tail(loc))

\* The schemas of an error as the wire shows them: an error built without
\* schemas shows the empty mapping.
SchemasOnWire(schemas) == IF schemas.t = "none" THEN PyDict(<<>>) ELSE schemas

\* C5: a raised FormValidationError(errors, schemas) gives status 400 with
\* one ErrorDetail per entry of errors, in order, location the 'loc' path
\* joined by '.', description the 'msg', and meta.schemas the error's schemas
\* (the empty mapping when the error carries none).
C5_ValidationResponse ==
    \A r \in Requests :
        EndedAfterRaise(r) /\ wrapper[r] = "pyocle.response" /\ IsValidation(r) =>
            LET errors == ExAttr(handler[r], n_errors).v
            IN  /\ IsResponse(resp[r])
                /\ StatusOf(resp[r]) = 400
                /\ Get(MetaOf(resp[r]), n_errorDetails) =
                    PyList([i \in 1..Len(errors) |->
                        PyDict(<<<<n_description, Get(errors[i], n_msg)>>,
                                 <<n_location, PyStr(Dotted(Get(errors[i], n_loc).v))>>>>)])
                /\ Get(MetaOf(resp[r]), n_schemas) = SchemasOnWire(ExAttr(handler[r], n_schemas))

\* An error the wrapper of r does not name in its taxonomy was raised.
IsUnclassified(r) == EndedAfterRaise(r) /\ ~IsNotFound(r) /\ ~IsValidation(r)

\* C6: an error outside the taxonomy gives status 500 with the fixed message,
\* and any two such errors give the same response: nothing of the error
\* reaches the wire.
C6_InternalErrorIsOpaque ==
    \A r1 \in Requests, r2 \in Requests :
        IsUnclassified(r1) /\ IsUnclassified(r2) =>
            /\ IsResponse(resp[r1])
            /\ StatusOf(resp[r1]) = 500
            /\ MessageOf(resp[r1]) = PyStr(InternalErrorMessage)
            /\ resp[r1] = resp[r2]

\* Two errors of different types and texts were handled by the catch-all.
C6_Witness ==
    \E r1 \in Requests, r2 \in Requests :
        /\ IsUnclassified(r1) /\ IsUnclassified(r2)
        /\ handler[r1] = OtherError("ValueError", "secret")
        /\ handler[r2] = OtherError("KeyError", "")
        /\ StatusOf(resp[r1]) = 500

\* C7: when the handler returns, the wrapped call returns the handler's value
\* and the wrapper builds no response.
C7_PassThrough ==
    \A r \in Requests :
        Terminated(r) /\ ~IsRaise(handler[r]) =>
            /\ resp[r] = handler[r]
            /\ outcome[r] = "passThrough"
            /\ built[r] = 0

\* A handler's response with headers of its own was passed through.
C7_Witness ==
    \E r \in Requests :
        /\ Terminated(r)
        /\ IsResponse(handler[r])
        /\ StatusOf(handler[r]) = 302
        /\ outcome[r] = "passThrough"

(***************************************************************************)
(* Properties of the builders.                                             *)
(***************************************************************************)
\* C8: response(status_code, meta, data) keeps the status code, and success
\* is true exactly when status_code < 400.
C8_SuccessBelow400 ==
    call.fn = "response" =>
        /\ IsResponse(call.result)
        /\ StatusOf(call.result) = call.args[1].v
        /\ SuccessOf(call.result) = PyBool(call.args[1].v < 400)
        /\ call.args[1].v = 399 => SuccessOf(call.result) = PyBool(TRUE)
        /\ call.args[1].v = 400 => SuccessOf(call.result) = PyBool(FALSE)

\* response() was called with status 400 and gave success = false.
C8_Witness ==
    /\ call.fn = "response"
    /\ call.args[1] = PyInt(400)
    /\ SuccessOf(call.result) = PyBool(FALSE)

FixedStatus(fn) ==
    CASE fn = "ok" -> 200
      [] fn = "created" -> 201
      [] fn = "bad" -> 400
      [] fn = "not_found" -> 404
      [] fn = "internal_error" -> 500

\* C9: ok gives 200/true, created 201/true, bad 400/false, not_found
\* 404/false, internal_error 500/false, for every argument of the declared
\* types.
C9_FixedStatus ==
    call.fn \in {"ok", "created", "bad", "not_found", "internal_error"} =>
        /\ IsResponse(call.result)
        /\ StatusOf(call.result) = FixedStatus(call.fn)
        /\ SuccessOf(call.result) = PyBool(call.fn \in {"ok", "created"})

\* created() was called with a payload and gave 201.
C9_Witness ==
    /\ call.fn = "created"
    /\ call.args[1] # PyNone
    /\ StatusOf(call.result) = 201

\* C10: every body has exactly the keys success, meta, data, and meta exactly
\* message, errorDetails, paginationDetails, schemas, with errorDetails a
\* sequence and paginationDetails and schemas mappings.
C10_EnvelopeShape ==
    call.fn \in {"ok", "created", "bad", "not_found", "internal_error", "response"} =>
        /\ IsResponse(call.result)
        /\ BodyOf(call.result).t = "dict"
        /\ Keys(BodyOf(call.result)) = <<n_success, n_meta, n_data>>
        /\ MetaOf(call.result).t = "dict"
        /\ Keys(MetaOf(call.result)) =
            <<n_message, n_errorDetails, n_paginationDetails, n_schemas>>
        /\ Get(MetaOf(call.result), n_errorDetails).t = "list"
        /\ Get(MetaOf(call.result), n_paginationDetails).t = "dict"
        /\ Get(MetaOf(call.result), n_schemas).t = "dict"

\* bad() was called with both optional arguments None.
C10_Witness ==
    /\ call.fn = "bad"
    /\ call.args = <<PyNone, PyNone>>
    /\ Get(MetaOf(call.result), n_schemas) = PyDict(<<>>)

\* C11: ok_metadata always carries 'Request completed successfully'; with a
\* pagination of page p and limit l its paginationDetails are {page: p,
\* limit: l}, and without one they are empty.
C11_OkMetadata ==
    /\ call.fn = "ok_metadata" =>
        LET pagination == call.args[1]
            wire == to_json(call.result)
        IN  /\ Attr(call.result, n_message) = PyStr("Request completed successfully")
            /\ Get(wire, n_message) = PyStr("Request completed successfully")
            /\ pagination.t = "none" =>
                /\ Attr(call.result, n_pagination_details) = PyDict(<<>>)
                /\ Get(wire, n_paginationDetails) = PyDict(<<>>)
            /\ pagination.t # "none" =>
                /\ Attr(Attr(call.result, n_pagination_details), n_page) =
                    Attr(pagination, n_page)
                /\ Attr(Attr(call.result, n_pagination_details), n_limit) =
                    Attr(pagination, n_limit)
                /\ Get(wire, n_paginationDetails) =
                    PyDict(<<<<n_page, Attr(pagination, n_page)>>,
                             <<n_limit, Attr(pagination, n_limit)>>>>)
    /\ call.fn = "ok" =>
        /\ MessageOf(call.result) = PyStr("Request completed successfully")
        /\ Get(MetaOf(call.result), n_paginationDetails) =
            IF call.args[2].t = "none" THEN PyDict(<<>>)
            ELSE PyDict(<<<<n_page, Attr(call.args[2], n_page)>>,
                          <<n_limit, Attr(call.args[2], n_limit)>>>>)

\* ok_metadata was called with page 3 and limit 10.
C11_Witness ==
    /\ call.fn = "ok_metadata"
    /\ call.args[1] = PaginationQueryParameters(3, 10)
    /\ Attr(Attr(call.result, n_pagination_details), n_page) = PyInt(3)

\* C12: bad(error_details, schemas) gives status 400, the fixed message, and
\* exactly the given details in the given order with their description and
\* location.
C12_BadEchoesDetails ==
    call.fn = "bad" =>
        LET given == IF call.args[1].t = "none" THEN <<>> ELSE call.args[1].v
        IN  /\ IsResponse(call.result)
            /\ StatusOf(call.result) = 400
            /\ MessageOf(call.result) =
                PyStr("Given inputs were incorrect. Consult the below details to address the issue.")
            /\ Get(MetaOf(call.result), n_errorDetails) =
                PyList([i \in 1..Len(given) |->
                    PyDict(<<<<n_description, Attr(given[i], n_description)>>,
                             <<n_location, Attr(given[i], n_location)>>>>)])

\* bad() was called with two different details.
C12_Witness ==
    /\ call.fn = "bad"
    /\ call.args[1].t = "list"
    /\ Len(call.args[1].v) = 2
    /\ Len(Get(MetaOf(call.result), n_errorDetails).v) = 2

(***************************************************************************)
(* The naming transformer applied to objects of a class that uses          *)
(* CamelCaseAttributesMixin.                                               *)
(***************************************************************************)
\* Longest field name tried.
MaxNameLen == 3

\* Characters of field names: lower and upper case letters, a digit, '_'.
NameChars == {"a", "b", "B", "1", "_"}

NamesUpTo(n) == {name \in UNION {[1..k -> NameChars] : k \in 1..n} : name[1] # "1"}

\* Python identifiers: a digit cannot come first.
FieldNames == NamesUpTo(MaxNameLen)

NestedMapping == PyDict(<<<<n_test_data, PyInt(5)>>>>)

FieldValues == {PyInt(1), PyStr("first"), NestedMapping}

OneFieldObjects ==
    {PyObj("DummyModel", <<<<name, value>>>>) : name \in FieldNames, value \in FieldValues}

TwoFieldObjects ==
    UNION {{PyObj("DummyModel", <<<<n[1], PyInt(1)>>, <<n[2], NestedMapping>>>>),
            PyObj("DummyModel", <<<<n[2], PyInt(1)>>, <<n[1], NestedMapping>>>>)} :
                n \in {m \in FieldNames \X NamesUpTo(MaxNameLen - 1) : m[1] # m[2]}}

\* Objects with one field, and with two fields of different names.
MixinObjects == OneFieldObjects \cup TwoFieldObjects

\* One object is serialized in a behaviour.
CallGetState ==
    /\ call = NoCall
    /\ \E o \in MixinObjects : Called("__getstate__", <<o>>, getstate(o))

NextNaming == CallGetState

SpecNaming == Init /\ [][NextNaming]_vars

HasSeparator(name) == \E i \in 1..Len(name) : name[i] = "_"

\* C13: the transformed mapping has no key containing '_', and a field name
\* without '_' is a key of it unchanged.
C13_NoSeparatorLeft ==
    call.fn = "__getstate__" =>
        /\ \A i \in 1..Len(call.result.v) : ~HasSeparator(call.result.v[i][1])
        /\ \A i \in 1..Len(call.args[1].v.attrs) :
            ~HasSeparator(call.args[1].v.attrs[i][1]) =>
                HasKey(call.result, call.args[1].v.attrs[i][1])

\* C14: transforming an already transformed key changes nothing.
C14_Idempotent ==
    call.fn = "__getstate__" =>
        \A i \in 1..Len(call.result.v) :
            to_camel_case(call.result.v[i][1]) = call.result.v[i][1]

\* The field at position i is the last one of fields whose name becomes key.
IsLastFor(fields, i, key) ==
    /\ to_camel_case(fields[i][1]) = key
    /\ \A j \in (i + 1)..Len(fields) : to_camel_case(fields[j][1]) # key

\* C15: the transformer rewrites field names only: every value of the output
\* is the value of the field its key comes from, unchanged, nested mappings
\* with '_' in their keys included, and every field's key is in the output.
C15_Shallow ==
    call.fn = "__getstate__" =>
        LET fields == call.args[1].v.attrs
            out == call.result
        IN  /\ \A i \in 1..Len(fields) : HasKey(out, to_camel_case(fields[i][1]))
            /\ \A k \in 1..Len(out.v) :
                \E i \in 1..Len(fields) :
                    /\ IsLastFor(fields, i, out.v[k][1])
                    /\ out.v[k][2] = fields[i][2]

\* An object with a snake-case field holding a mapping with a snake-case key
\* was transformed, and the mapping came out as it went in.
C15_Witness ==
    /\ call.fn = "__getstate__"
    /\ call.args[1].v.attrs = <<<<<<"b">>, PyInt(1)>>, <<<<"a", "_", "b">>, NestedMapping>>>>
    /\ Get(call.result, <<"a", "B">>) = NestedMapping
    /\ HasKey(Get(call.result, <<"a", "B">>), n_test_data)

(***************************************************************************)
(* form.py: JSON text, pydantic models and the resolvers.                  *)
(*                                                                         *)
(* A JSON text is the sequence of its tokens; a token is [k, v] with k its *)
(* kind and v a tagged value: the braces, ':' and ',' are "punct" tokens,  *)
(* a string is a "string" token holding a name (where a key stands) or a   *)
(* str, and there are "number" and "null" tokens.  A text that is no JSON  *)
(* at all holds a "garbage" token.  A str holding JSON is tagged           *)
(* "jsontext", its utf-8 encoding "bytes".                                 *)
(***************************************************************************)
PyName(chars) == [t |-> "name", v |-> chars]

Tok(k, v) == [k |-> k, v |-> v]

Punct(c) == Tok("punct", PyStr(c))

JsonText(tokens) == [t |-> "jsontext", v |-> tokens]

\* bytes(text, 'utf-8')
PyBytes(text) == [t |-> "bytes", v |-> text.v]

\* The token that writes an atom.
AtomToken(x) ==
    CASE x.t = "str" -> Tok("string", x)
      [] x.t = "int" -> Tok("number", x)
      [] x.t = "none" -> Tok("null", x)

\* jsonpickle.dumps(mapping, unpicklable=False) of a mapping of atoms.
RECURSIVE dumps_items(_, _)
dumps_items(items, i) ==
    IF i > Len(items) THEN <<>>
    ELSE (IF i > 1 THEN <<Punct(",")>> ELSE <<>>)
            \o <<Tok("string", PyName(items[i][1])), Punct(":"), AtomToken(items[i][2])>>
            \o dumps_items(items, i + 1)

dumps(mapping) == JsonText(<<Punct("{")>> \o dumps_items(mapping.v, 1) \o <<Punct("}")>>)

IsAtomToken(tok) == tok.k \in {"string", "number", "null"}

\* The members of a JSON object from token i on, added to acc; first says
\* that no member was read yet.  A repeated key keeps its last value.
RECURSIVE loads_members(_, _, _, _)
loads_members(toks, i, acc, first) ==
    IF i > Len(toks) THEN Raise("ValueError", <<>>)
    ELSE IF first /\ toks[i] = Punct("}")
         THEN IF i = Len(toks) THEN acc ELSE Raise("ValueError", <<>>)
    ELSE IF i + 3 > Len(toks) THEN Raise("ValueError", <<>>)
    ELSE IF ~(/\ toks[i].k = "string"
              /\ toks[i + 1] = Punct(":")
              /\ IsAtomToken(toks[i + 2]))
         THEN Raise("ValueError", <<>>)
    ELSE LET more == Put(acc, toks[i].v.v, toks[i + 2].v)
         IN  IF toks[i + 3] = Punct(",") THEN loads_members(toks, i + 4, more, FALSE)
             ELSE IF toks[i + 3] = Punct("}") /\ i + 3 = Len(toks) THEN more
             ELSE Raise("ValueError", <<>>)

\* jsonpickle.loads(data) of a str or bytes: the value the text stands for,
\* or the decoder's error, a ValueError.
loads(data) ==
    LET toks == data.v
    IN  IF toks = <<>> THEN Raise("ValueError", <<>>)
        ELSE IF Len(toks) = 1 /\ IsAtomToken(toks[1]) THEN toks[1].v
        ELSE IF toks[1] = Punct("{") THEN loads_members(toks, 2, PyDict(<<>>), TRUE)
        ELSE Raise("ValueError", <<>>)

\* A name as a str.
RECURSIVE NameStr(_)
NameStr(chars) == IF chars = <<>> THEN "" ELSE chars[1] \o NameStr(Tail(chars))

\* The largest integer a str is read as.
MaxLiteral == 1001

IntLiterals == (0 - MaxLiteral)..MaxLiteral

\* int(s) of a str: the integer it writes, or a ValueError.
int_of_str(s) ==
    IF \E n \in IntLiterals : ToString(n) = s
    THEN PyInt(CHOOSE n \in IntLiterals : ToString(n) = s)
    ELSE Raise("ValueError", <<>>)

(***************************************************************************)
(* A form type is [name, is_model, fields]; a field is [name, type,        *)
(* required, default, ge, le], with ge and le None where conint sets no    *)
(* bound.                                                                  *)
(***************************************************************************)
Field(name, type, required, default, ge, le) ==
    [name |-> name, type |-> type, required |-> required, default |-> default,
     ge |-> ge, le |-> le]

n_first_name == <<"f", "i", "r", "s", "t", "_", "n", "a", "m", "e">>

n_last_name == <<"l", "a", "s", "t", "_", "n", "a", "m", "e">>

n_extra == <<"e", "x", "t", "r", "a">>

n_type == <<"t", "y", "p", "e">>

n_queryParameters ==
    <<"q", "u", "e", "r", "y", "P", "a", "r", "a", "m", "e", "t", "e", "r", "s">>

n_QueryParameters ==
    <<"Q", "u", "e", "r", "y", "P", "a", "r", "a", "m", "e", "t", "e", "r", "s">>

\* tests: class DummyForm(BaseModel)
DummyForm ==
    [name |-> <<"D", "u", "m", "m", "y", "F", "o", "r", "m">>,
     is_model |-> TRUE,
     fields |-> <<Field(n_first_name, "str", TRUE, PyNone, PyNone, PyNone),
                  Field(n_last_name, "str", TRUE, PyNone, PyNone, PyNone)>>]

\* class PaginationQueryParameters(BaseModel)
PaginationQueryParametersType ==
    [name |-> <<"P", "a", "g", "i", "n", "a", "t", "i", "o", "n">> \o n_QueryParameters,
     is_model |-> TRUE,
     fields |-> <<Field(n_page, "int", FALSE, PyInt(0), PyInt(0), PyNone),
                  Field(n_limit, "int", FALSE, PyInt(100), PyInt(1), PyInt(1000))>>]

\* tests: class InvalidForm, no subclass of BaseModel
InvalidForm ==
    [name |-> <<"I", "n", "v", "a", "l", "i", "d", "F", "o", "r", "m">>,
     is_model |-> FALSE,
     fields |-> <<>>]

\* form_type.schema(): the model's description of itself.
schema(form_type) ==
    PyDict(<<<<n_title, PyStr(NameStr(form_type.name))>>,
             <<n_type, PyStr("object")>>,
             <<<<"p", "r", "o", "p", "e", "r", "t", "i", "e", "s">>,
               PyList([i \in 1..Len(form_type.fields) |-> PyName(form_type.fields[i].name)])>>>>)

\* pydantic's validators of one value: the validated value, or the message
\* of the first validator that fails.
Invalid(msg, type) == [t |-> "invalid", v |-> msg, type |-> type]

\* conint with gt and lt in place of ge and le.
check_bounds_exclusive(field, n) ==
    IF field.ge.t = "int" /\ n.v <= field.ge.v
    THEN Invalid("ensure this value is greater than " \o ToString(field.ge.v),
                 "value_error.number.not_gt")
    ELSE IF field.le.t = "int" /\ n.v >= field.le.v
    THEN Invalid("ensure this value is less than " \o ToString(field.le.v),
                 "value_error.number.not_lt")
    ELSE n

check_bounds(field, n) ==
    IF field.ge.t = "int" /\ n.v < field.ge.v
    THEN Invalid("ensure this value is greater than or equal to " \o ToString(field.ge.v),
                 "value_error.number.not_ge")
    ELSE IF field.le.t = "int" /\ n.v > field.le.v
    THEN Invalid("ensure this value is less than or equal to " \o ToString(field.le.v),
                 "value_error.number.not_le")
    ELSE n

validate_value(field, x) ==
    IF x.t = "none" THEN Invalid("none is not an allowed value", "type_error.none.not_allowed")
    ELSE IF field.type = "str"
         THEN CASE x.t = "str" -> x
                [] x.t = "int" -> PyStr(ToString(x.v))
                [] OTHER -> Invalid("str type expected", "type_error.str")
    ELSE LET n == CASE x.t = "int" -> x
                    [] x.t = "str" -> int_of_str(x.v)
                    [] OTHER -> Raise("TypeError", <<>>)
         IN  IF IsRaise(n) THEN Invalid("value is not a valid integer", "type_error.integer")
             ELSE check_bounds(field, n)

\* The outcome of one field: its value, or what is wrong with it.
validate_field(field, data) ==
    IF HasKey(data, field.name) THEN validate_value(field, Get(data, field.name))
    ELSE IF field.required THEN Invalid("field required", "value_error.missing")
    ELSE field.default

\* errors() that stops at the first field that failed.
RECURSIVE validation_errors_first_only(_, _, _)
validation_errors_first_only(fields, data, i) ==
    IF i > Len(fields) THEN <<>>
    ELSE LET outcome_i == validate_field(fields[i], data)
         IN  IF outcome_i.t = "invalid"
             THEN <<PyDict(<<<<n_loc, PyList(<<PyStr(NameStr(fields[i].name))>>)>>,
                             <<n_msg, PyStr(outcome_i.v)>>,
                             <<n_type, PyStr(outcome_i.type)>>>>)>>
             ELSE validation_errors_first_only(fields, data, i + 1)

\* ValidationError.errors(): one entry per field that failed, in the order
\* of the fields.
RECURSIVE validation_errors(_, _, _)
validation_errors(fields, data, i) ==
    IF i > Len(fields) THEN <<>>
    ELSE LET outcome_i == validate_field(fields[i], data)
         IN  (IF outcome_i.t = "invalid"
              THEN <<PyDict(<<<<n_loc, PyList(<<PyStr(NameStr(fields[i].name))>>)>>,
                              <<n_msg, PyStr(outcome_i.v)>>,
                              <<n_type, PyStr(outcome_i.type)>>>>)>>
              ELSE <<>>)
                \o validation_errors(fields, data, i + 1)

\* The keys of data that are fields: the model's __fields_set__.
fields_set(fields, data) == {fields[i].name : i \in {j \in 1..Len(fields) : HasKey(data, fields[j].name)}}

\* form_type(**data): TypeError when data is no mapping, ValidationError
\* when a field fails, else the model; keys that are no fields are ignored.
construct(form_type, data) ==
    IF data.t # "dict" THEN Raise("TypeError", <<>>)
    ELSE LET errors == validation_errors(form_type.fields, data, 1)
         IN  IF errors # <<>>
             THEN Raise("pydantic.ValidationError", <<<<n_errors, PyList(errors)>>>>)
             ELSE [t |-> "object",
                   v |-> [cls |-> NameStr(form_type.name),
                          attrs |-> [i \in 1..Len(form_type.fields) |->
                                        <<form_type.fields[i].name,
                                          validate_field(form_type.fields[i], data)>>],
                          fields_set |-> fields_set(form_type.fields, data)]]

\* name.endswith(suffix)
endswith(name, suffix) ==
    /\ Len(name) >= Len(suffix)
    /\ SubSeq(name, Len(name) - Len(suffix) + 1, Len(name)) = suffix

\* _resolve_schema_name testing `'QueryParameters' in model_name`.
resolve_schema_name_contains(model) ==
    IF \E i \in 1..Len(model.name) :
            \E j \in i..Len(model.name) : SubSeq(model.name, i, j) = n_QueryParameters
    THEN n_queryParameters
    ELSE n_requestBody

resolve_schema_name(model) ==
    LET model_name == model.name
    IN  IF endswith(model_name, n_QueryParameters) THEN n_queryParameters
        ELSE n_requestBody

ParseFailureMessage ==
    "Form could not be validated due to given json not existing or being valid"

\* The except (TypeError, ValueError) clause of resolve_form.
on_parse_failure(form_type) ==
    LET errors ==
            PyList(<<PyDict(<<<<n_loc, PyList(<<PyStr("requestBody")>>)>>,
                              <<n_msg,
                                PyStr("Request body either either did not exist or was not valid JSON.")>>>>)>>)
        schema_name == resolve_schema_name(form_type)
    IN  form_FormValidationError(errors, PyStr(ParseFailureMessage),
                                 PyDict(<<<<schema_name, schema(form_type)>>>>))

\* The except ValidationError clause of resolve_form.
on_validation_error(form_type, ex) ==
    LET schema_name == resolve_schema_name(form_type)
    IN  form_FormValidationError(ExAttr(ex, n_errors), PyNone,
                                 PyDict(<<<<schema_name, schema(form_type)>>>>))

\* isinstance(data, (str, bytes))
IsText(data) == data.t \in {"jsontext", "bytes"}

\* resolve_form with an except ValueError clause in place of
\* except (TypeError, ValueError).
resolve_value_error_only(form_type, data, decode) ==
    LET decoded == IF decode THEN loads(data) ELSE data
        form == IF IsRaise(decoded) THEN decoded ELSE construct(form_type, decoded)
    IN  IF ~IsRaise(form) THEN form
        ELSE IF form.v.cls = "pydantic.ValidationError" THEN on_validation_error(form_type, form)
        ELSE IF form.v.cls = "ValueError" THEN on_parse_failure(form_type)
        ELSE form

\* The try block of resolve_form and its except clauses.
resolve(form_type, data, decode) ==
    LET decoded == IF decode THEN loads(data) ELSE data
        form == IF IsRaise(decoded) THEN decoded ELSE construct(form_type, decoded)
    IN  IF ~IsRaise(form) THEN form
        ELSE IF form.v.cls = "pydantic.ValidationError" THEN on_validation_error(form_type, form)
        ELSE IF form.v.cls \in {"TypeError", "ValueError"} THEN on_parse_failure(form_type)
        ELSE form

\* resolve_form decoding a str only.
resolve_form_str_only(data, form_type) ==
    IF ~form_type.is_model THEN Raise("ValueError", <<>>)
    ELSE resolve(form_type, data, data.t = "jsontext")

\* resolve_form with its issubclass check inside the try block, where the
\* ValueError meets except (TypeError, ValueError).
resolve_form_check_in_try(data, form_type) ==
    IF ~form_type.is_model THEN on_parse_failure(form_type)
    ELSE resolve(form_type, data, IsText(data))

resolve_form(data, form_type) ==
    IF ~form_type.is_model
    THEN Raise("ValueError",
               <<<<n_args,
                   PyStr("Unsupported form type: " \o NameStr(form_type.name)
                            \o ". Type must be subclass of pydantic.BaseModel")>>>>)
    ELSE resolve(form_type, data, IsText(data))

\* model.dict(): every field.
dict_all(model) == IF IsRaise(model) THEN model ELSE PyDict(model.v.attrs)

\* model.dict(exclude_unset=True): the fields that were given.
dict_exclude_unset(model) ==
    IF IsRaise(model) THEN model
    ELSE LET given == {i \in 1..Len(model.v.attrs) : model.v.attrs[i][1] \in model.v.fields_set}
             RECURSIVE pick(_)
             pick(i) ==
                IF i > Len(model.v.attrs) THEN <<>>
                ELSE (IF i \in given THEN <<model.v.attrs[i]>> ELSE <<>>) \o pick(i + 1)
         IN  PyDict(pick(1))

resolve_query_params(params, model) ==
    IF params.t = "none" THEN PyDict(<<>>)
    ELSE dict_exclude_unset(resolve_form(params, model))

(***************************************************************************)
(* The resolvers called directly: what a caller hands over and what comes  *)
(* back, one call per behaviour.                                           *)
(***************************************************************************)
\* Most keys a mapping is given with.
MaxKeys == 2

FormTypes == {DummyForm, PaginationQueryParametersType, InvalidForm}

FormKeys(form_type) ==
    {form_type.fields[i].name : i \in 1..Len(form_type.fields)} \cup {n_extra}

FormValues(form_type) ==
    IF form_type = PaginationQueryParametersType
    THEN {PyInt(-1), PyInt(0), PyInt(5), PyInt(1000), PyInt(1001), PyStr("5"), PyStr("a"), PyNone}
    ELSE {PyStr("first"), PyInt(1), PyNone}

\* The mappings of at most MaxKeys keys, in every order of their keys.
DistinctKeys(keys, n) ==
    {ks \in UNION {[1..k -> keys] : k \in 0..n} :
        \A i, j \in 1..Len(ks) : i # j => ks[i] # ks[j]}

Mappings(form_type) ==
    UNION {{PyDict([i \in 1..Len(ks) |-> <<ks[i], vs[i]>>]) :
                vs \in [1..Len(ks) -> FormValues(form_type)]} :
           ks \in DistinctKeys(FormKeys(form_type), MaxKeys)}

\* '', '{', '123', '"abc"', 'null', no JSON at all, '{"first_name":',
\* '{"first_name":"first",}' and '{}}'.
BadTexts ==
    {<<>>,
     <<Punct("{")>>,
     <<Tok("number", PyInt(123))>>,
     <<Tok("string", PyStr("abc"))>>,
     <<Tok("null", PyNone)>>,
     <<Tok("garbage", PyNone)>>,
     <<Punct("{"), Tok("string", PyName(n_first_name)), Punct(":")>>,
     <<Punct("{"), Tok("string", PyName(n_first_name)), Punct(":"),
       Tok("string", PyStr("first")), Punct(","), Punct("}")>>,
     <<Punct("{"), Punct("}"), Punct("}")>>}

BadDatas ==
    {PyNone} \cup {JsonText(text) : text \in BadTexts}
        \cup {PyBytes(JsonText(text)) : text \in BadTexts}

FormDatas(form_type) ==
    Mappings(form_type)
        \cup {dumps(m) : m \in Mappings(form_type)}
        \cup {PyBytes(dumps(m)) : m \in Mappings(form_type)}
        \cup BadDatas

CallResolveForm ==
    /\ call = NoCall
    /\ \E form_type \in FormTypes :
        \E data \in FormDatas(form_type) :
            Called("resolve_form", <<data, form_type>>, resolve_form(data, form_type))

CallResolveQueryParams ==
    /\ call = NoCall
    /\ \E model \in {PaginationQueryParametersType, DummyForm} :
        \E params \in Mappings(model) \cup {PyNone} :
            Called("resolve_query_params", <<params, model>>,
                   resolve_query_params(params, model))

\* The integers PaginationQueryParameters is constructed with.
IntSamples == {PyInt(-1), PyInt(0), PyInt(1), PyInt(10), PyInt(500), PyInt(999),
               PyInt(1000), PyInt(1001)}

\* The keyword arguments page and limit, each given or omitted.
PaginationKwargs ==
    UNION {{PyDict([i \in 1..Len(ks) |-> <<ks[i], vs[i]>>]) : vs \in [1..Len(ks) -> IntSamples]} :
           ks \in {<<>>, <<n_page>>, <<n_limit>>, <<n_page, n_limit>>}}

CallPaginationQueryParameters ==
    /\ call = NoCall
    /\ \E kwargs \in PaginationKwargs :
        Called("PaginationQueryParameters", <<kwargs>>,
               construct(PaginationQueryParametersType, kwargs))

\* The messages the errors are constructed with: none, an empty one, one.
TaxonomyMessages == Messages \cup {PyStr("")}

CallResourceNotFoundError ==
    /\ call = NoCall
    /\ \E identifier \in Identifiers, message \in TaxonomyMessages :
        \/ Called("pyocle.service.ResourceNotFoundError", <<identifier, message>>,
                  service_ResourceNotFoundError("pyocle.service.ResourceNotFoundError",
                                                identifier, message))
        \/ Called("pyocle.error.ResourceNotFoundError", <<identifier, message>>,
                  error_ResourceNotFoundError(identifier, message))

CallFormValidationError ==
    /\ call = NoCall
    /\ \E message \in TaxonomyMessages, schemas \in SchemasValues :
        \/ \E errors \in ErrorLists :
                Called("pyocle.form.FormValidationError", <<errors, message, schemas>>,
                       form_FormValidationError(errors, message, schemas))
        \/ \E error_details \in ErrorDetailLists :
                Called("pyocle.error.FormValidationError", <<error_details, message, schemas>>,
                       error_FormValidationError(error_details, message, schemas))

\* A model class of the given name.
ModelNamed(name) == [name |-> name, is_model |-> TRUE, fields |-> <<>>]

\* UserQueryParameters, QueryParameters, QueryParametersForm,
\* Userqueryparameters, UserQueryParameter, and the classes above.
SchemaTypes ==
    {ModelNamed(<<"U", "s", "e", "r">> \o n_QueryParameters),
     ModelNamed(n_QueryParameters),
     ModelNamed(n_QueryParameters \o <<"F", "o", "r", "m">>),
     ModelNamed(<<"U", "s", "e", "r">> \o n_queryParameters),
     ModelNamed(<<"U", "s", "e", "r">> \o SubSeq(n_QueryParameters, 1, Len(n_QueryParameters) - 1)),
     DummyForm, PaginationQueryParametersType}

CallResolveSchemaName ==
    /\ call = NoCall
    /\ \E model \in SchemaTypes :
        Called("_resolve_schema_name", <<model>>, PyName(resolve_schema_name(model)))

\* ok(data, resolve_query_params(params, PaginationQueryParameters))
ok_resolved(data, params) ==
    LET pagination == resolve_query_params(params, PaginationQueryParametersType)
    IN  IF IsRaise(pagination) THEN pagination ELSE ok(data, pagination)

CallOkResolved ==
    /\ call = NoCall
    /\ \E data \in Datas, params \in Mappings(PaginationQueryParametersType) \cup {PyNone} :
        Called("ok_resolved", <<data, params>>, ok_resolved(data, params))

NextForm ==
    \/ CallOkResolved
    \/ CallResolveSchemaName
    \/ CallResolveForm
    \/ CallResolveQueryParams
    \/ CallPaginationQueryParameters
    \/ CallResourceNotFoundError
    \/ CallFormValidationError

SpecForm == Init /\ [][NextForm]_vars

(***************************************************************************)
(* What the schema asks of a mapping, said without the validators.         *)
(***************************************************************************)
\* The integers a field admits.
FieldRange(field) ==
    (IF field.ge.t = "int" THEN field.ge.v ELSE 0 - MaxLiteral)
        ..(IF field.le.t = "int" THEN field.le.v ELSE MaxLiteral)

\* The typed values a given value is taken as; none when it is refused.
AcceptedAs(field, x) ==
    IF x.t \notin {"str", "int"} THEN {}
    ELSE IF field.type = "str" THEN {PyStr(Str(x))}
    ELSE IF x.t = "int" THEN {x} \cap {PyInt(n) : n \in FieldRange(field)}
    ELSE {PyInt(n) : n \in {k \in FieldRange(field) : ToString(k) = x.v}}

FieldViolated(field, m) ==
    IF HasKey(m, field.name) THEN AcceptedAs(field, Get(m, field.name)) = {}
    ELSE field.required

Satisfies(form_type, m) ==
    \A i \in 1..Len(form_type.fields) : ~FieldViolated(form_type.fields[i], m)

\* The field contents of the typed value of a mapping that satisfies the schema.
ExpectedContents(form_type, m) ==
    [i \in 1..Len(form_type.fields) |->
        <<form_type.fields[i].name,
          IF HasKey(m, form_type.fields[i].name)
          THEN CHOOSE x \in AcceptedAs(form_type.fields[i], Get(m, form_type.fields[i].name)) : TRUE
          ELSE form_type.fields[i].default>>]

\* The mapping itself, its JSON text and the bytes of that text.
Encodings(m) == {m, dumps(m), PyBytes(dumps(m))}

\* The mapping a value is an encoding of, if it is one of any: the keys and
\* values at the places where dumps writes them.
Source(data) ==
    IF data.t = "dict" THEN data
    ELSE PyDict([j \in 1..((Len(data.v) - 1) \div 4) |->
                    <<data.v[4 * j - 2].v.v, data.v[4 * j].v>>])

EncodesMapping(data) ==
    \/ data.t = "dict"
    \/ IsText(data) /\ Len(data.v) >= 2 /\ data \in Encodings(Source(data))

\* C16: for every mapping that satisfies the schema, resolve_form of the raw
\* mapping, of its JSON text and of the bytes of that text succeeds and
\* returns the same field contents, those of the mapping.
C16_EqualForEveryEncoding ==
    (/\ call.fn = "resolve_form"
     /\ call.args[2].is_model
     /\ EncodesMapping(call.args[1])
     /\ Satisfies(call.args[2], Source(call.args[1]))) =>
            /\ ~IsRaise(call.result)
            /\ call.result.v.attrs = ExpectedContents(call.args[2], Source(call.args[1]))

C16_Witness ==
    /\ call.fn = "resolve_form"
    /\ call.args[2] = DummyForm
    /\ call.args[1] =
            PyBytes(dumps(PyDict(<<<<n_first_name, PyStr("first")>>, <<n_last_name, PyInt(1)>>>>)))
    /\ ~IsRaise(call.result)
    /\ call.result.v.attrs = <<<<n_first_name, PyStr("first")>>, <<n_last_name, PyStr("1")>>>>

\* C17: resolve_form of None, of an empty or malformed text or bytes, or of
\* text or bytes that decode to something that is no mapping raises
\* FormValidationError with exactly one error, located at 'requestBody', the
\* parse-failure message and a schemas map that is not None.
C17_ParseFailureFolded ==
    call.fn = "resolve_form" /\ call.args[2].is_model /\ call.args[1] \in BadDatas =>
        /\ IsRaise(call.result)
        /\ call.result.v.cls = "pyocle.form.FormValidationError"
        /\ Len(ExAttr(call.result, n_errors).v) = 1
        /\ Get(ExAttr(call.result, n_errors).v[1], n_loc) = PyList(<<PyStr("requestBody")>>)
        /\ ExAttr(call.result, n_message) =
                PyStr("Form could not be validated due to given json not existing or being valid")
        /\ ExAttr(call.result, n_schemas).t = "dict"

C17_Witness ==
    /\ call.fn = "resolve_form"
    /\ call.args[2] = DummyForm
    /\ call.args[1] = PyBytes(JsonText(<<Tok("number", PyInt(123))>>))
    /\ IsRaise(call.result)
    /\ call.result.v.cls = "pyocle.form.FormValidationError"
    /\ Len(ExAttr(call.result, n_errors).v) = 1

\* The fields a mapping violates, in the order of the schema.
ViolatedFields(form_type, m) == SelectSeq(form_type.fields, LAMBDA field : FieldViolated(field, m))

\* pydantic's messages for the constraints of these schemas.
ValidatorMessages ==
    {"field required", "none is not an allowed value", "str type expected",
     "value is not a valid integer",
     "ensure this value is greater than or equal to 0",
     "ensure this value is greater than or equal to 1",
     "ensure this value is less than or equal to 1000"}

\* C18: when the input decodes to a mapping that violates the schema,
\* resolve_form raises FormValidationError with one error per violated field,
\* located at that field and described by the validator's message, and a
\* schemas map of exactly one entry: the schema's description under its
\* resolved name.
C18_OneErrorPerViolation ==
    (/\ call.fn = "resolve_form"
     /\ call.args[2].is_model
     /\ EncodesMapping(call.args[1])
     /\ ~Satisfies(call.args[2], Source(call.args[1]))) =>
            LET violated == ViolatedFields(call.args[2], Source(call.args[1]))
                errors == ExAttr(call.result, n_errors).v
            IN  /\ IsRaise(call.result)
                /\ call.result.v.cls = "pyocle.form.FormValidationError"
                /\ Len(errors) = Len(violated)
                /\ \A i \in 1..Len(errors) :
                    /\ Get(errors[i], n_loc) = PyList(<<PyStr(NameStr(violated[i].name))>>)
                    /\ Get(errors[i], n_msg).t = "str"
                    /\ Get(errors[i], n_msg).v \in ValidatorMessages
                /\ ExAttr(call.result, n_schemas) =
                        PyDict(<<<<IF call.args[2] = PaginationQueryParametersType
                                   THEN n_queryParameters ELSE n_requestBody,
                                   schema(call.args[2])>>>>)

C18_Witness ==
    /\ call.fn = "resolve_form"
    /\ call.args[2] = PaginationQueryParametersType
    /\ call.args[1] = dumps(PyDict(<<<<n_limit, PyInt(1001)>>, <<n_page, PyStr("a")>>>>))
    /\ IsRaise(call.result)
    /\ Len(ExAttr(call.result, n_errors).v) = 2
    /\ Get(ExAttr(call.result, n_errors).v[1], n_msg) = PyStr("value is not a valid integer")
    /\ Get(ExAttr(call.result, n_errors).v[2], n_msg) =
            PyStr("ensure this value is less than or equal to 1000")

\* The items of a mapping or the field contents of a model, as == compares
\* them: without their order.
ItemSet(x) ==
    LET items == IF x.t = "object" THEN x.v.attrs ELSE x.v
    IN  {items[i] : i \in 1..Len(items)}

\* C19: resolve_query_params(None, PaginationQueryParameters) returns, without
\* raising, a value equal to PaginationQueryParameters(): page 0, limit 100.
C19_DefaultsWhenAbsent ==
    (/\ call.fn = "resolve_query_params"
     /\ call.args[1] = PyNone
     /\ call.args[2] = PaginationQueryParametersType) =>
        /\ ~IsRaise(call.result)
        /\ ItemSet(call.result) = {<<n_page, PyInt(0)>>, <<n_limit, PyInt(100)>>}
        /\ ItemSet(call.result) =
                ItemSet(construct(PaginationQueryParametersType, PyDict(<<>>)))

\* C20: resolve_query_params of parameters that are present and valid returns
\* exactly the parameters the model declares and the caller gave, validated:
\* a field that was not given is absent, and a name the model does not
\* declare is dropped without a rejection.
C20_ExactlyTheSuppliedFields ==
    (/\ call.fn = "resolve_query_params"
     /\ call.args[1] # PyNone
     /\ Satisfies(call.args[2], call.args[1])) =>
        LET declared == ItemSet(PyDict(ExpectedContents(call.args[2], call.args[1])))
        IN  /\ ~IsRaise(call.result)
            /\ call.result.t = "dict"
            /\ ItemSet(call.result) = {item \in declared : HasKey(call.args[1], item[1])}
            /\ Len(call.result.v) = Cardinality(ItemSet(call.result))

C20_Witness ==
    /\ call.fn = "resolve_query_params"
    /\ call.args[2] = PaginationQueryParametersType
    /\ call.args[1] = PyDict(<<<<n_extra, PyStr("a")>>, <<n_limit, PyStr("5")>>>>)
    /\ call.result = PyDict(<<<<n_limit, PyInt(5)>>>>)

\* The keyword argument of a call, or what stands for it when it is omitted.
Kwarg(kwargs, name, omitted) == IF HasKey(kwargs, name) THEN Get(kwargs, name).v ELSE omitted

\* C21: PaginationQueryParameters(page, limit) with integers succeeds exactly
\* when page >= 0 and 1 <= limit <= 1000, and an omitted field is page 0,
\* limit 100.
C21_PaginationBounds ==
    call.fn = "PaginationQueryParameters" =>
        LET page == Kwarg(call.args[1], n_page, 0)
            limit == Kwarg(call.args[1], n_limit, 100)
        IN  /\ ~IsRaise(call.result) <=> (page >= 0 /\ 1 <= limit /\ limit <= 1000)
            /\ ~IsRaise(call.result) =>
                call.result.v.attrs = <<<<n_page, PyInt(page)>>, <<n_limit, PyInt(limit)>>>>
            /\ IsRaise(call.result) => call.result.v.cls = "pydantic.ValidationError"

C21_Witness ==
    /\ call.fn = "PaginationQueryParameters"
    /\ call.args[1] = PyDict(<<<<n_limit, PyInt(1000)>>>>)
    /\ ~IsRaise(call.result)
    /\ call.result.v.attrs = <<<<n_page, PyInt(0)>>, <<n_limit, PyInt(1000)>>>>

\* The calls that construct an error of the taxonomy, and the place of the
\* message among their arguments.
NotFoundConstructors == {"pyocle.service.ResourceNotFoundError", "pyocle.error.ResourceNotFoundError"}

ValidationConstructors == {"pyocle.form.FormValidationError", "pyocle.error.FormValidationError"}

\* resolve_form raised for a mapping that violates the schema.
FromSchemaValidation ==
    /\ call.fn = "resolve_form"
    /\ call.args[2].is_model
    /\ EncodesMapping(call.args[1])
    /\ ~Satisfies(call.args[2], Source(call.args[1]))

\* C22: an error built without a message carries its default message,
\* 'Resource with id {identifier} does not exist' for ResourceNotFoundError
\* and 'Given inputs were incorrect. Consult the below details to address the
\* issue.' for a FormValidationError of schema validation; a given message
\* replaces the default.
C22_DefaultMessages ==
    /\ call.fn \in NotFoundConstructors =>
        ExAttr(call.result, n_message) =
            IF call.args[2] = PyNone
            THEN PyStr("Resource with id " \o Str(call.args[1]) \o " does not exist")
            ELSE call.args[2]
    /\ call.fn \in ValidationConstructors /\ call.args[2] # PyNone =>
        ExAttr(call.result, n_message) = call.args[2]
    /\ FromSchemaValidation =>
        ExAttr(call.result, n_message) =
            PyStr("Given inputs were incorrect. Consult the below details to address the issue.")

\* C22, amended: the default messages are 'Resource with id {identifier}
\* could not be found' and 'Form was not validated successfully', carried
\* when no message or an empty one is given; a given message that is not
\* empty replaces the default.
C22_DefaultMessagesAmended ==
    /\ call.fn \in NotFoundConstructors =>
        ExAttr(call.result, n_message) =
            IF call.args[2] \in {PyNone, PyStr("")}
            THEN PyStr("Resource with id " \o Str(call.args[1]) \o " could not be found")
            ELSE call.args[2]
    /\ call.fn \in ValidationConstructors =>
        ExAttr(call.result, n_message) =
            IF call.args[2] \in {PyNone, PyStr("")}
            THEN PyStr("Form was not validated successfully")
            ELSE call.args[2]
    /\ FromSchemaValidation =>
        /\ IsRaise(call.result)
        /\ ExAttr(call.result, n_message) = PyStr("Form was not validated successfully")

C22_Witness ==
    /\ call.fn = "pyocle.service.ResourceNotFoundError"
    /\ call.args = <<PyInt(7), PyNone>>
    /\ ExAttr(call.result, n_message) = PyStr("Resource with id 7 could not be found")

C24_LoggedBeforeInternalError ==
    \A r \in Requests :
        outcome[r] = "internalError" =>
            \E i \in 1..Len(log) : log[i].thread = r /\ log[i].exc = handler[r]

C24_Witness ==
    /\ outcome[1] = "internalError"
    /\ wrapper[1] = "pyocle.error"
    /\ resp[1] = internal_error
    /\ \E i \in 1..Len(log) :
        /\ log[i].thread = 1
        /\ log[i].exc = OtherError("KeyError", "secret")
        /\ log[i].msg = "Caught exception for %s"

\* The name is some prefix followed by 'QueryParameters'.
EndsInQueryParameters(name) ==
    \E prefix \in {SubSeq(name, 1, k) : k \in 0..Len(name)} : name = prefix \o n_QueryParameters

\* The schemas map resolve_form raises with for a failure of the given type.
FailureSchemas(form_type) == ExAttr(resolve_form(PyNone, form_type), n_schemas)

\* C25: a schema type whose name ends in 'QueryParameters' resolves to
\* 'queryParameters' and every other one to 'requestBody'; the schemas map
\* of a failed resolve_form has that one key, so the maps of a body failure
\* and of a query-parameter failure share no key and merge to two entries.
C25_TwoSchemaNames ==
    /\ call.fn = "_resolve_schema_name" =>
        call.result =
            PyName(IF EndsInQueryParameters(call.args[1].name)
                   THEN <<"q", "u", "e", "r", "y", "P", "a", "r", "a", "m", "e", "t", "e", "r", "s">>
                   ELSE <<"r", "e", "q", "u", "e", "s", "t", "B", "o", "d", "y">>)
    /\ (/\ call.fn = "resolve_form"
        /\ IsRaise(call.result)
        /\ call.result.v.cls = "pyocle.form.FormValidationError") =>
            /\ Len(ExAttr(call.result, n_schemas).v) = 1
            /\ \A other \in SchemaTypes :
                EndsInQueryParameters(other.name)
                    # EndsInQueryParameters(call.args[2].name) =>
                        KeySet(ExAttr(call.result, n_schemas))
                            \cap KeySet(FailureSchemas(other)) = {}

C25_Witness ==
    /\ call.fn = "_resolve_schema_name"
    /\ call.args[1].name =
            <<"Q", "u", "e", "r", "y", "P", "a", "r", "a", "m", "e", "t", "e", "r", "s",
              "F", "o", "r", "m">>
    /\ call.result = PyName(n_requestBody)

\* C26: resolve_form with a form type that is no subclass of BaseModel
\* raises ValueError with the message 'Unsupported form type: <name>. Type
\* must be subclass of pydantic.BaseModel' whatever the data, malformed
\* data included: it is no FormValidationError.
C26_UnsupportedFormType ==
    call.fn = "resolve_form" /\ ~call.args[2].is_model =>
        /\ IsRaise(call.result)
        /\ call.result.v.cls = "ValueError"
        /\ call.args[2] = InvalidForm =>
            ExAttr(call.result, n_args) =
                PyStr("Unsupported form type: InvalidForm. Type must be subclass of pydantic.BaseModel")

C26_Witness ==
    /\ call.fn = "resolve_form"
    /\ call.args[2] = InvalidForm
    /\ call.args[1] = JsonText(<<Punct("{")>>)
    /\ IsRaise(call.result)
    /\ call.result.v.cls = "ValueError"

\* C27: the wrappers of pyocle.error and pyocle.response are
\* interchangeable: around the same handler behaviour, be it a return, a
\* ResourceNotFoundError or FormValidationError of either module or any
\* other exception, both return a response, with the same status code and
\* the same body.
C27_WrappersInterchangeable ==
    \A r1, r2 \in Requests :
        (/\ pc[r1] = "terminated"
         /\ pc[r2] = "terminated"
         /\ wrapper[r1] = "pyocle.response"
         /\ wrapper[r2] = "pyocle.error"
         /\ handler[r1] = handler[r2]) =>
            \/ ~IsResponse(handler[r1]) /\ ~IsRaise(handler[r1]) /\ resp[r1] = resp[r2]
            \/ /\ IsResponse(resp[r1])
               /\ IsResponse(resp[r2])
               /\ StatusOf(resp[r1]) = StatusOf(resp[r2])
               /\ BodyOf(resp[r1]) = BodyOf(resp[r2])

\* C28: the value resolve_query_params returns for PaginationQueryParameters
\* can be given to ok as its pagination: for parameters that are absent or
\* valid, partly or fully given, the result is a 200 response whose
\* paginationDetails holds every resolved parameter, and nothing is raised.
C28_ResolvedPaginationFitsOk ==
    (/\ call.fn = "ok_resolved"
     /\ \/ call.args[2] = PyNone
        \/ Satisfies(PaginationQueryParametersType, call.args[2])) =>
        /\ IsResponse(call.result)
        /\ StatusOf(call.result) = 200
        /\ call.args[2] # PyNone =>
            {item \in ItemSet(PyDict(ExpectedContents(PaginationQueryParametersType,
                                                      call.args[2]))) :
                HasKey(call.args[2], item[1])}
                \subseteq ItemSet(Get(MetaOf(call.result), n_paginationDetails))

\* C29: the naming transformer never loses a field: the output mapping has
\* as many entries as the object has fields, two distinct field names never
\* becoming the same key.
C29_NoFieldLost ==
    call.fn = "__getstate__" =>
        /\ Len(call.result.v) = Len(call.args[1].v.attrs)
        /\ \A i, j \in 1..Len(call.args[1].v.attrs) :
            i # j => to_camel_case(call.args[1].v.attrs[i][1])
                        # to_camel_case(call.args[1].v.attrs[j][1])

(***************************************************************************)
(* service/core.py: BaseForm.dict, the cleaning of a form's _dict().       *)
(***************************************************************************)
\* len(value): of a str, a list or a dict; anything else has no len().
len(value) ==
    CASE value.t = "str" -> IF value.v = "" THEN 0 ELSE Len(value.v)
      [] value.t \in {"list", "dict"} -> Len(value.v)
      [] OTHER -> -1

\* valid_entry(key, value); the keys are names, never None.  The TypeError
\* of len() is told by its result.
valid_entry(key, value) ==
    IF value.t = "none" THEN PyBool(FALSE)
    ELSE IF len(value) < 0 THEN Raise("TypeError", <<>>)
    ELSE PyBool(len(value) > 0)

\* The items of clean_dict(dictionary) from item i on.
RECURSIVE clean_dict_from(_, _)
clean_dict_from(dictionary, i) ==
    IF i > Len(dictionary.v) THEN PyDict(<<>>)
    ELSE LET key == dictionary.v[i][1]
             value == dictionary.v[i][2]
             valid == valid_entry(key, value)
             rest == clean_dict_from(dictionary, i + 1)
         IN  IF IsRaise(valid) THEN valid
             ELSE IF ~valid.v THEN rest
             ELSE LET cleaned == IF value.t = "dict" THEN clean_dict_from(value, 1) ELSE value
                  IN  IF IsRaise(cleaned) THEN cleaned
                      ELSE IF IsRaise(rest) THEN rest
                      ELSE PyDict(<<<<key, cleaned>>>> \o rest.v)

clean_dict(dictionary) == clean_dict_from(dictionary, 1)

\* Deepest nesting of dicts in a form's _dict().
MaxNesting == 2

\* None, empty and non-empty strs and lists.
PlainValues == {PyNone, PyStr(""), PyStr("test"), PyList(<<>>), PyList(<<PyStr("test")>>)}

\* The dicts {} and {'test': value}, nested up to depth n.
RECURSIVE NestedDicts(_)
NestedDicts(n) ==
    {PyDict(<<>>)}
        \cup {PyDict(<<<<<<"t", "e", "s", "t">>, value>>>>) :
                value \in PlainValues \cup (IF n = 0 THEN {} ELSE NestedDicts(n - 1))}

\* What DummyBaseForm._dict() returns.
FormDicts ==
    {PyDict(<<<<<<"n", "a", "m", "e">>, name>>, <<<<"i", "t", "e", "m", "s">>, items>>>>) :
        name \in PlainValues \cup NestedDicts(MaxNesting),
        items \in PlainValues \cup NestedDicts(MaxNesting)}

CallBaseFormDict ==
    /\ call = NoCall
    /\ \E form_dict \in FormDicts :
        Called("BaseForm.dict", <<form_dict>>, clean_dict(form_dict))

SpecBaseForm == Init /\ [][CallBaseFormDict]_vars

\* None, or a str, list or dict without elements.
IsEmptyValue(value) == value \in {PyNone, PyStr(""), PyList(<<>>), PyDict(<<>>)}

\* No value of the dict, at any depth of dicts, is None or empty.
RECURSIVE NothingEmpty(_)
NothingEmpty(d) ==
    \A i \in 1..Len(d.v) :
        /\ ~IsEmptyValue(d.v[i][2])
        /\ d.v[i][2].t = "dict" => NothingEmpty(d.v[i][2])

\* C30: BaseForm.dict() returns _dict() without the entries whose value is
\* None or empty, at every depth of nested dicts: the result holds no None
\* and no empty value at any depth, an entry whose value is neither a dict
\* nor empty is kept unchanged, and cleaning the result again changes
\* nothing.
C30_CleanedEverywhere ==
    call.fn = "BaseForm.dict" =>
        /\ ~IsRaise(call.result)
        /\ NothingEmpty(call.result)
        /\ \A i \in 1..Len(call.args[1].v) :
            LET key == call.args[1].v[i][1]
                value == call.args[1].v[i][2]
            IN  ~IsEmptyValue(value) /\ value.t # "dict" =>
                    HasKey(call.result, key) /\ Get(call.result, key) = value
        /\ clean_dict(call.result) = call.result

====
